---- MODULE Spec2Model ----
(***************************************************************************)
(* Model of src/translator.py: the LiveTranslator session (language pair   *)
(* and history), the turn pipeline LiveTranslator.process, the background  *)
(* speak threads it starts, and the text and voice front-end loops that    *)
(* drive it.                                                               *)
(*                                                                         *)
(* Text is a sequence of one-character strings, so that strip(), len() and *)
(* the vowel test are computed as the code computes them.  A Devanagari    *)
(* character is written by its code point ("U+0905").                      *)
(*                                                                         *)
(* The control thread is cut at its blocking calls (console.input, listen, *)
(* recognize_google, GoogleTranslator.translate) and at Thread.start, the  *)
(* places where speak threads interleave with it.                          *)
(***************************************************************************)
EXTENDS Integers, Sequences, FiniteSets, TLC

\* ---------------------------------------------------------------- bounds
\* Longest generated input line (characters, before trimming).
MaxLen == 2
\* Number of front-end loop iterations (lines read / listens) explored.
MaxTurns == 2

\* ------------------------------------------------------------- constants
\* Characters str.strip() removes.
Whitespace == {" ", "\t", "\n", "\r"}

\* set("aeiouAEIOU" + the ten Devanagari independent vowels)
Vowels ==
    {"a", "e", "i", "o", "u", "A", "E", "I", "O", "U",
     "U+0905", "U+0906", "U+0907", "U+0908", "U+0909", "U+090A",
     "U+090F", "U+0910", "U+0913", "U+0914"}

UpperCase == <<"A", "B", "C", "D", "E", "F", "G", "H", "I", "J", "K", "L", "M",
               "N", "O", "P", "Q", "R", "S", "T", "U", "V", "W", "X", "Y", "Z">>
LowerCase == <<"a", "b", "c", "d", "e", "f", "g", "h", "i", "j", "k", "l", "m",
               "n", "o", "p", "q", "r", "s", "t", "u", "v", "w", "x", "y", "z">>

\* ------------------------------------------------------------ input sets
\* Characters of the generated lines: a blank and a vowel.
Alphabet == {" ", "a"}

RECURSIVE SeqsUpTo(_)
SeqsUpTo(n) ==
    IF n = 0 THEN {<<>>}
    ELSE LET shorter == SeqsUpTo(n - 1)
         IN  shorter \cup {Append(s, c) : s \in {t \in shorter : Len(t) = n - 1},
                                          c \in Alphabet}

\* Lines beyond the generated ones: a padded word, a consonant, digits, and a
\* Devanagari syllable written with a dependent vowel sign only.
ExtraLines ==
    { <<" ", "h", "o", "l", "a", "\t">>,
      <<"x">>,
      <<"1", "2", "3">>,
      <<"U+0928", "U+0947">> }

Lines == SeqsUpTo(MaxLen) \cup ExtraLines

\* The commands of text mode as a user may type them.
CommandLines ==
    { <<"q", "u", "i", "t">>,
      <<"E", "x", "i", "t">>,
      <<" ", "Q">>,
      <<"H", "i", "s", "t", "o", "r", "y", " ">> }

TextLines == Lines \cup CommandLines

\* What GoogleTranslator(...).translate(text) can hand back: a translated
\* string (possibly empty), None, or an exception.
Translation == <<"U+0928", "U+092E", "U+0938", "U+094D", "U+0924", "U+0947">>
ServiceResponses ==
    { [kind |-> "ok",    value |-> Translation],
      [kind |-> "ok",    value |-> <<>>],
      [kind |-> "none",  value |-> <<>>],
      [kind |-> "error", value |-> <<>>] }

\* A request the service has not answered yet.
Pending == [kind |-> "pending", value |-> <<>>]

Request_swapped(t, src, tgt) ==
    [text |-> t, source |-> tgt, target |-> src, response |-> Pending]

\* translate(): GoogleTranslator(source=..., target=...).translate(text)
Request(t, src, tgt) ==
    [text |-> t, source |-> src, target |-> tgt, response |-> Pending]

\* ------------------------------------------------------------- variables
VARIABLES
    source_lang,   \* LiveTranslator.source_lang
    target_lang,   \* LiveTranslator.target_lang
    history,       \* LiveTranslator.history
    mode,          \* argument of run(): "text" or "voice"
    line,          \* run_text_mode: what console.input returned last, <<>> if nothing
    pc,            \* position of the control thread
    text,          \* process(): local `text` after strip()
    translated,    \* process(): local `translated`
    raw,           \* argument of the current / latest process call
    before,        \* history when that call began
    ret,           \* its return value: <<>> is None, <<e>> is entry e
    pstate,        \* "none" | "active" | "returned" | "raised"
    out,           \* console output of the control thread, this iteration
    requests,      \* translation service requests, this iteration
    tasks,         \* speak threads started, in start order
    mixer,         \* pygame.mixer.music: index of the task whose audio plays, 0 idle
    turns          \* loop iterations begun

vars == <<source_lang, target_lang, history, mode, line, pc, text, translated, raw,
          before, ret, pstate, out, requests, tasks, mixer, turns>>

session == <<source_lang, target_lang>>
callvars == <<text, translated, raw, before, ret, requests>>
audio == <<tasks, mixer>>

\* ------------------------------------------------------- pure functions
\* str.strip(): drop leading and trailing whitespace.
RECURSIVE LStrip(_)
LStrip(s) ==
    IF s = <<>> THEN <<>>
    ELSE IF Head(s) \in Whitespace THEN LStrip(Tail(s)) ELSE s

RECURSIVE RStrip(_)
RStrip(s) ==
    IF s = <<>> THEN <<>>
    ELSE IF s[Len(s)] \in Whitespace THEN RStrip(SubSeq(s, 1, Len(s) - 1)) ELSE s

Strip(s) == RStrip(LStrip(s))

\* str.lower(), on the ASCII letters.
LowerChar(c) ==
    IF \E i \in 1..Len(UpperCase) : UpperCase[i] = c
    THEN LowerCase[CHOOSE i \in 1..Len(UpperCase) : UpperCase[i] = c]
    ELSE c

Lower_asTyped(s) == s

Lower(s) == [i \in 1..Len(s) |-> LowerChar(s[i])]

QuitCommands == { <<"q", "u", "i", "t">>, <<"e", "x", "i", "t">>, <<"q">> }
HistoryCommand == <<"h", "i", "s", "t", "o", "r", "y">>

EmptyText_never(t) == FALSE

\* process(): `if not text`
EmptyText(t) == t = <<>>

_looks_like_speech_nolen(t) == \E i \in 1..Len(t) : t[i] \in Vowels

\* LiveTranslator._looks_like_speech
_looks_like_speech(t) ==
    IF Len(t) < 2 THEN FALSE
    ELSE \E i \in 1..Len(t) : t[i] \in Vowels

ConversationEntry_texts(original, trans, src, tgt) ==
    [original |-> trans, translated |-> original,
     source_lang |-> src, target_lang |-> tgt]

ConversationEntry_langs(original, trans, src, tgt) ==
    [original |-> original, translated |-> trans,
     source_lang |-> tgt, target_lang |-> src]

\* ConversationEntry.__init__ (the wall-clock timestamp is left out)
ConversationEntry(original, trans, src, tgt) ==
    [original |-> original, translated |-> trans,
     source_lang |-> src, target_lang |-> tgt]

\* One console.print of the control thread.
Ev(by, kind, a, b, n) == [by |-> by, kind |-> kind, a |-> a, b |-> b, n |-> n]

TranslateResult_str(resp) ==
    IF resp.kind = "ok" THEN resp.value
    ELSE IF resp.kind = "none" THEN <<"N", "o", "n", "e">>
    ELSE <<>>

\* LiveTranslator.translate: `result or ""`, and "" after an exception.
TranslateResult(resp) == IF resp.kind = "ok" THEN resp.value ELSE <<>>

\* LiveTranslator._show_history: what it prints.
_show_history ==
    IF history = <<>>
    THEN << Ev("loop", "no_history", <<>>, <<>>, 0) >>
    ELSE [i \in 1..Len(history) |->
            Ev("loop", "history_row", history[i].original, history[i].translated, i)]

\* A speak thread as started by process.
NewTask(t, lang) ==
    [text |-> t, lang |-> lang, pc |-> "synth", file |-> "none", reported |-> "none"]

\* ------------------------------------------------------------------ Init
Init ==
    /\ \E d \in {<<"es", "hi">>, <<"hi", "es">>} :
          /\ source_lang = d[1]
          /\ target_lang = d[2]
    /\ mode \in {"text", "voice"}
    /\ line = <<>>
    /\ history = <<>>
    /\ pc = "run"
    /\ text = <<>>
    /\ translated = <<>>
    /\ raw = <<>>
    /\ before = <<>>
    /\ ret = <<>>
    /\ pstate = "none"
    /\ out = <<>>
    /\ requests = <<>>
    /\ tasks = <<>>
    /\ mixer = 0
    /\ turns = 0

\* ------------------------------------------------------------- process()
\* The start of process(input), up to its first return or to the call of the
\* translation service.  `o` is the console output of the iteration so far.
ProcessBegin(input, o) ==
    LET t == Strip(input) IN
    /\ raw' = input
    /\ before' = history
    /\ translated' = <<>>
    /\ IF EmptyText(t)
       THEN /\ text' = t
            /\ ret' = <<>>
            /\ pstate' = "returned"
            /\ out' = o
            /\ requests' = <<>>
            /\ pc' = "loop"
       ELSE IF ~_looks_like_speech(t)
       THEN /\ text' = t
            /\ ret' = <<>>
            /\ pstate' = "returned"
            /\ out' = Append(o, Ev("process", "skip", t, <<>>, 0))
            /\ requests' = <<>>
            /\ pc' = "loop"
       ELSE /\ text' = t
            /\ ret' = <<>>
            /\ pstate' = "active"
            /\ out' = Append(o, Ev("process", "original", t, <<>>, 0))
            /\ requests' = Append(<<>>, Request(t, source_lang, target_lang))
            /\ pc' = "translate"

\* The iteration's observation window is cleared when no process call is made.
NoCall ==
    /\ raw' = <<>>
    /\ before' = history
    /\ text' = <<>>
    /\ translated' = <<>>
    /\ ret' = <<>>
    /\ pstate' = "none"
    /\ requests' = <<>>

\* translate() returns to process: a non-empty translation is printed.
TranslateReturn ==
    /\ pc = "translate"
    /\ \E resp \in ServiceResponses :
         LET result == TranslateResult(resp)
             o == IF resp.kind = "error"
                  THEN Append(out, Ev("translate", "translation_error", <<>>, <<>>, 0))
                  ELSE out
         IN  /\ requests' = [requests EXCEPT ![Len(requests)] =
                                [text |-> @.text, source |-> @.source,
                                 target |-> @.target, response |-> resp]]
             /\ IF result = <<>>
                THEN /\ translated' = <<>>
                     /\ ret' = <<>>
                     /\ pstate' = "returned"
                     /\ out' = o
                     /\ pc' = "loop"
                ELSE /\ translated' = result
                     /\ ret' = ret
                     /\ pstate' = pstate
                     /\ out' = o \o << Ev("process", "translated", result, <<>>, 0),
                                       Ev("process", "speaking", <<>>, <<>>, 0) >>
                     /\ pc' = "spawn"
    /\ UNCHANGED <<session, history, mode, line, text, raw, before, audio, turns>>

\* KeyboardInterrupt while the service call blocks: translate() does not catch
\* it (it is no Exception), process is left by the exception, the loop breaks.
TranslateInterrupt ==
    /\ pc = "translate"
    /\ pstate' = "raised"
    /\ pc' = "summary"
    /\ requests' = [requests EXCEPT ![Len(requests)] =
                      [text |-> @.text, source |-> @.source, target |-> @.target,
                       response |-> [kind |-> "interrupt", value |-> <<>>]]]
    /\ UNCHANGED <<session, history, mode, line, text, translated, raw, before, ret,
                   out, audio, turns>>

\* threading.Thread(target=self.speak, args=(translated, target_lang)).start()
SpawnSpeak ==
    /\ pc = "spawn"
    /\ tasks' = Append(tasks, NewTask(translated, target_lang))
    /\ pc' = "append"
    /\ UNCHANGED <<session, history, mode, line, callvars, pstate, out, mixer, turns>>

StartReturns_joined(task) == task.pc = "done"

\* Thread.start() returns once the thread runs; nothing joins the thread.
StartReturns(task) == TRUE

HistoryAppend_only(h, e) == <<e>>

HistoryAppend_front(h, e) == <<e>> \o h

HistoryAppend_dedup(h, e) ==
    IF \E i \in 1..Len(h) : h[i] = e THEN h ELSE Append(h, e)

\* list.append
HistoryAppend(h, e) == Append(h, e)

\* entry = ConversationEntry(...); self.history.append(entry); return entry
AppendEntry ==
    /\ pc = "append"
    /\ StartReturns(tasks[Len(tasks)])
    /\ LET entry == ConversationEntry(text, translated, source_lang, target_lang)
       IN  /\ history' = HistoryAppend(history, entry)
           /\ ret' = <<entry>>
    /\ pstate' = "returned"
    /\ pc' = "loop"
    /\ UNCHANGED <<session, mode, line, text, translated, raw, before, out, requests,
                   audio, turns>>

\* ------------------------------------------------------------------ run()
RunText ==
    /\ pc = "run"
    /\ mode = "text"
    /\ out' = << Ev("loop", "panel", <<>>, <<>>, 0) >>
    /\ pc' = "loop"
    /\ UNCHANGED <<session, history, mode, line, callvars, pstate, audio, turns>>

\* run_voice_mode: speech_recognition imports, or sys.exit(1)
RunVoice ==
    /\ pc = "run"
    /\ mode = "voice"
    /\ \/ /\ out' = << Ev("loop", "panel", <<>>, <<>>, 0) >>
          /\ pc' = "loop"
       \/ /\ out' = << Ev("loop", "voice_unavailable", <<>>, <<>>, 0) >>
          /\ pc' = "exit1"
    /\ UNCHANGED <<session, history, mode, line, callvars, pstate, audio, turns>>

\* ------------------------------------------------------------- text mode
\* One iteration of the while loop of run_text_mode on the line `line`.
TextLine ==
    /\ pc = "loop"
    /\ mode = "text"
    /\ turns < MaxTurns
    /\ turns' = turns + 1
    /\ \E typed \in TextLines :
         LET t == Strip(typed) IN
         /\ line' = typed
         /\ IF t = <<>>
            THEN /\ NoCall /\ out' = <<>> /\ pc' = "loop"
            ELSE IF Lower(t) \in QuitCommands
            THEN /\ NoCall /\ out' = <<>> /\ pc' = "summary"
            ELSE IF Lower(t) = HistoryCommand
            THEN /\ NoCall /\ out' = _show_history /\ pc' = "loop"
            ELSE ProcessBegin(t, <<>>)
    /\ UNCHANGED <<session, history, mode, audio>>

\* Ctrl+C at the prompt: except KeyboardInterrupt: break
TextInterrupt ==
    /\ pc = "loop"
    /\ mode = "text"
    /\ NoCall
    /\ line' = <<>>
    /\ out' = <<>>
    /\ pc' = "summary"
    /\ UNCHANGED <<session, history, mode, audio, turns>>

\* End of input at the prompt: console.input raises EOFError, which nothing
\* in run_text_mode, run or main catches.
TextEOF ==
    /\ pc = "loop"
    /\ mode = "text"
    /\ NoCall
    /\ line' = <<>>
    /\ out' = <<>>
    /\ pc' = "crashed"
    /\ UNCHANGED <<session, history, mode, audio, turns>>

\* ------------------------------------------------------------ voice mode
\* recognizer.listen: a phrase is captured, or WaitTimeoutError.
VoiceListen ==
    /\ pc = "loop"
    /\ mode = "voice"
    /\ turns < MaxTurns
    /\ turns' = turns + 1
    /\ NoCall
    /\ \/ /\ out' = << Ev("loop", "listening", <<>>, <<>>, 0),
                       Ev("loop", "no_speech", <<>>, <<>>, 0) >>
          /\ pc' = "loop"
       \/ /\ out' = << Ev("loop", "listening", <<>>, <<>>, 0),
                       Ev("loop", "recognising", <<>>, <<>>, 0) >>
          /\ pc' = "recognise"
    /\ UNCHANGED <<session, history, mode, line, audio>>

RecogniseFailNext_break == "summary"

\* run_voice_mode: `continue` after a recognition failure
RecogniseFailNext == "loop"

\* recognizer.recognize_google raises UnknownValueError or RequestError.
VoiceRecogniseFail ==
    /\ pc = "recognise"
    /\ \E k \in {"not_understood", "speech_api_error"} :
         out' = Append(out, Ev("loop", k, <<>>, <<>>, 0))
    /\ pc' = RecogniseFailNext
    /\ UNCHANGED <<session, history, mode, line, callvars, pstate, audio, turns>>

\* recognizer.recognize_google returns a transcript: self.process(text)
VoiceTranscript ==
    /\ pc = "recognise"
    /\ \E heard \in Lines : ProcessBegin(heard, out)
    /\ UNCHANGED <<session, history, mode, line, audio, turns>>

\* Ctrl+C while listening or recognising: except KeyboardInterrupt: break
VoiceInterrupt ==
    /\ pc \in {"loop", "recognise"}
    /\ mode = "voice"
    /\ pc' = "summary"
    /\ UNCHANGED <<session, history, mode, line, callvars, pstate, out, audio, turns>>

\* run(): the session summary after the loop.
Summary ==
    /\ pc = "summary"
    /\ out' = out \o << Ev("loop", "summary", <<>>, <<>>, Len(history)),
                        Ev("loop", "goodbye", <<>>, <<>>, 0) >>
    /\ pc' = "exited"
    /\ UNCHANGED <<session, history, mode, line, callvars, pstate, audio, turns>>

\* ------------------------------------------------------- speak() threads
\* The threads are daemons: they run only while the interpreter does.
Alive == pc \notin {"exited", "crashed", "exit1"}

Caught_escapes(reported) ==
    IF reported = "none" THEN UNCHANGED <<pc, pstate>>
    ELSE pc' = "crashed" /\ pstate' = pstate

\* speak(): try ... except ImportError ... except Exception: whatever is
\* raised inside the thread is printed there; the control thread goes on.
Caught(reported) == UNCHANGED <<pc, pstate>>

SpeakFrame_forgets ==
    /\ UNCHANGED session
    /\ history' = IF history = <<>> THEN history ELSE Tail(history)

\* speak(text, lang) works on its two arguments, the temporary file and the
\* mixer: it names neither self.history nor the language pair.
SpeakFrame == UNCHANGED <<session, history>>

GetBusy_never == FALSE

\* pygame.mixer.music.get_busy(): the shared music stream is playing.
GetBusy == mixer # 0

TaskStep(i, newpc, file, reported) ==
    /\ tasks' = [tasks EXCEPT ![i] = [text |-> @.text, lang |-> @.lang, pc |-> newpc,
                                      file |-> file, reported |-> reported]]
    /\ Caught(reported)

\* gTTS(...), tts.save into a NamedTemporaryFile(delete=False), then
\* pygame.mixer.init(); music.load(tmp); music.play(): the shared music stream
\* now plays this task's file.  Or the import fails; or one of the calls
\* raises, before or after the temporary file exists.
SpeakStart(i) ==
    /\ Alive
    /\ tasks[i].pc = "synth"
    /\ \/ /\ TaskStep(i, "busy", "exists", "none")
          /\ mixer' = i
       \/ /\ TaskStep(i, "done", "none", "import_error")
          /\ mixer' = mixer
       \/ /\ \E f \in {"none", "exists"} : TaskStep(i, "done", f, "audio_error")
          /\ mixer' = mixer
    /\ SpeakFrame
    /\ UNCHANGED <<mode, line, callvars, out, turns>>

\* The audio that is playing comes to its end.
PlaybackEnds ==
    /\ Alive
    /\ mixer # 0
    /\ mixer' = 0
    /\ UNCHANGED <<session, history, mode, line, pc, callvars, pstate, out, tasks, turns>>

\* get_busy() is false: the wait loop ends and os.unlink(tmp) runs.
SpeakFinish(i) ==
    /\ Alive
    /\ tasks[i].pc = "busy"
    /\ ~GetBusy
    /\ \/ TaskStep(i, "done", "deleted", "none")
       \/ TaskStep(i, "done", "exists", "audio_error")
    /\ SpeakFrame
    /\ UNCHANGED <<mode, line, callvars, out, mixer, turns>>

\* ------------------------------------------------------------------ Next
Next ==
    \/ RunText
    \/ RunVoice
    \/ TextLine
    \/ TextInterrupt
    \/ TextEOF
    \/ VoiceListen
    \/ VoiceRecogniseFail
    \/ VoiceTranscript
    \/ VoiceInterrupt
    \/ TranslateReturn
    \/ TranslateInterrupt
    \/ SpawnSpeak
    \/ AppendEntry
    \/ Summary
    \/ \E i \in 1..Len(tasks) : SpeakStart(i)
    \/ \E i \in 1..Len(tasks) : SpeakFinish(i)
    \/ PlaybackEnds

Spec == Init /\ [][Next]_vars

\* The control thread is scheduled: inside process, the statement after the
\* translation and the one after Thread.start() are eventually executed.
\* Nothing is assumed about the speak threads or the outside world.
LiveSpec == Spec /\ WF_vars(SpawnSpeak) /\ WF_vars(AppendEntry)

\* ================================================================ claims
\* The trimmed form of a line, stated without strip(): the part from its
\* first to its last non-whitespace character.
Trimmed(s) ==
    LET solid == {i \in 1..Len(s) : s[i] \notin Whitespace}
    IN  IF solid = {} THEN <<>>
        ELSE SubSeq(s, CHOOSE i \in solid : \A j \in solid : i <= j,
                       CHOOSE i \in solid : \A j \in solid : j <= i)

TooShort(t) == Len(t) < 2
NoVowel(t) == \A i \in 1..Len(t) : t[i] \notin Vowels
Rejected(t) == TooShort(t) \/ NoVowel(t)

\* The service's answer to the request of the latest call.
Answer == requests[Len(requests)].response
Answered == requests # <<>> /\ Answer.kind \notin {"pending", "interrupt"}
ServiceSucceeded == Answered /\ Answer.kind = "ok" /\ Answer.value # <<>>
ServiceFailed == Answered /\ ~(Answer.kind = "ok" /\ Answer.value # <<>>)

\* What process itself (translate included) printed in this iteration.
ProcessOut == SelectSeq(out, LAMBDA e : e.by \in {"process", "translate"})

IsPrefix(h, g) == Len(h) <= Len(g) /\ h = SubSeq(g, 1, Len(h))

\* The step is a process call that returns without calling the service: made
\* by the text loop as it reads a line, or by the voice loop on a transcript.
CallReturnsAtOnce ==
    /\ pstate' = "returned"
    /\ \/ pc = "loop" /\ turns' # turns
       \/ pc = "recognise" /\ pc' = "loop"

\* C1: when process returns for an input that passes the filter and that the
\* service translated to a non-empty result, it returns an entry whose original
\* is the trimmed input and whose translated is the service's result, and the
\* history is one entry longer than when the call began.
C1_SuccessReturnsEntry ==
    (pstate = "returned" /\ ~Rejected(Trimmed(raw)) /\ ServiceSucceeded)
        => /\ Len(ret) = 1
           /\ ret[1].original = Trimmed(raw)
           /\ ret[1].translated = Answer.value
           /\ Len(history) = Len(before) + 1

\* A padded line was translated and its entry returned.
C1_Witness ==
    /\ pstate = "returned"
    /\ ServiceSucceeded
    /\ raw # Trimmed(raw)
    /\ Len(ret) = 1
    /\ Len(history) = 2

\* C2: when the service raised, or returned None or an empty string, process
\* returns nothing and the history is what it was when the call began.
C2_FailureLeavesHistory ==
    (pstate = "returned" /\ ServiceFailed) => (ret = <<>> /\ history = before)

\* The service raised in the second turn, after a first turn was recorded.
C2_Witness ==
    /\ pstate = "returned"
    /\ ServiceFailed
    /\ Answer.kind = "error"
    /\ Len(history) = 1

\* C3: when process returns for an input whose trimmed text is shorter than 2
\* characters or has no vowel of the allow-list, it returns nothing and the
\* history is what it was when the call began.
C3_RejectedLeavesHistory ==
    (pstate = "returned" /\ Rejected(Trimmed(raw)))
        => (ret = <<>> /\ history = before)

\* A text of three characters without a vowel was rejected after a recorded turn.
C3_Witness ==
    /\ pstate = "returned"
    /\ NoVowel(Trimmed(raw))
    /\ ~TooShort(Trimmed(raw))
    /\ ret = <<>>
    /\ Len(history) = 1

\* C4: a process call on an empty or whitespace-only input returns nothing, and
\* the step changes neither the history nor the speak threads, makes no
\* translation request and prints nothing (no 'skip' notification either).
C4_EmptyInputNoEffect ==
    [][ (CallReturnsAtOnce /\ Trimmed(raw') = <<>>)
          => /\ ret' = <<>>
             /\ history' = history
             /\ tasks' = tasks
             /\ mixer' = mixer
             /\ requests' = <<>>
             /\ SelectSeq(out', LAMBDA e : e.by \in {"process", "translate"}) = <<>> ]_vars

\* A whitespace-only transcript was processed after a recorded turn.
C4_Witness ==
    /\ pstate = "returned"
    /\ raw # <<>>
    /\ Trimmed(raw) = <<>>
    /\ Len(history) = 1

\* C5: every step leaves the old history as a prefix of the new one, and the
\* final step of a successful turn makes it exactly one entry longer, also
\* when an equal entry is already there.
C5_HistoryAppendOnly ==
    [][ /\ IsPrefix(history, history')
        /\ (pc = "append" /\ pc' # "append") => Len(history') = Len(history) + 1 ]_vars

\* Two successful turns with the same text gave two equal entries.
C5_Witness ==
    /\ Len(history) = 2
    /\ history[1] = history[2]

\* C6: every entry of the history carries the session's source and target
\* language, and no step changes the session's language pair.
C6_EntriesCarrySessionLanguages ==
    /\ [](\A i \in 1..Len(history) :
            /\ history[i].source_lang = source_lang
            /\ history[i].target_lang = target_lang)
    /\ [][source_lang' = source_lang /\ target_lang' = target_lang]_vars

\* A Hindi-to-Spanish session with two entries.
C6_Witness ==
    /\ source_lang = "hi"
    /\ target_lang = "es"
    /\ Len(history) = 2

\* C7: a step in which a speak thread fails leaves the control thread, the
\* return value, the history and the console of the control thread as they
\* were; and the step that ends a turn whose translation succeeded returns the
\* entry and appends it, whatever has become of the speak threads.
C7_SynthesisFailureIsolated ==
    [][ /\ (\E i \in 1..Len(tasks) :
              tasks[i].reported = "none" /\ tasks'[i].reported # "none")
            => /\ pc' = pc
               /\ pstate' = pstate
               /\ ret' = ret
               /\ history' = history
               /\ out' = out
        /\ (pc = "append" /\ pc' # "append")
            => /\ pc' = "loop"
               /\ pstate' = "returned"
               /\ Len(ret') = 1
               /\ ret'[1].translated = translated
               /\ history' = Append(history, ret'[1]) ]_vars

\* Both turns were recorded and returned although both speak threads failed.
C7_Witness ==
    /\ pstate = "returned"
    /\ Len(ret) = 1
    /\ Len(history) = 2
    /\ tasks[1].reported = "import_error"
    /\ tasks[2].reported = "audio_error"

\* C8: once the translation of a turn has succeeded, process returns the
\* entry, with no assumption that any speak thread ever takes a step.
C8_SpeakNeverBlocks ==
    (pc = "spawn") ~> (pc = "loop" /\ pstate = "returned" /\ Len(ret) = 1)

\* The second turn was processed to its end while the speak thread of the
\* first had not yet taken a step and its own was still playing.
C8_Witness ==
    /\ pstate = "returned"
    /\ Len(ret) = 1
    /\ Len(history) = 2
    /\ tasks[1].pc = "synth"
    /\ tasks[2].pc = "busy"

\* C9: whenever no process call is under way, as many speak threads have been
\* started as the history has entries, the i-th for the i-th entry's
\* translation; and a call that has returned started one thread if it returned
\* an entry and none if it returned nothing.
C9_OneSpeakPerEntry ==
    /\ pstate # "active"
        => /\ Len(tasks) = Len(history)
           /\ \A i \in 1..Len(tasks) : tasks[i].text = history[i].translated
    /\ pstate = "returned" => Len(tasks) = Len(before) + Len(ret)

\* A recorded turn was followed by one whose translation failed: one thread.
C9_Witness ==
    /\ pstate = "returned"
    /\ ServiceFailed
    /\ ret = <<>>
    /\ Len(tasks) = 1
    /\ Len(history) = 1

\* C10: in an iteration that called process on a text the filter rejects, the
\* 'skip' notification for that text is all process printed and no request
\* was made; on a text that passes, exactly one request was made, for the
\* trimmed text and the session's language pair, also after the service failed.
C10_OneRequestPerPassingText ==
    (pstate # "none" /\ Trimmed(raw) # <<>>)
        => IF Rejected(Trimmed(raw))
           THEN /\ requests = <<>>
                /\ ProcessOut = << Ev("process", "skip", Trimmed(raw), <<>>, 0) >>
           ELSE /\ Len(requests) = 1
                /\ requests[1].text = Trimmed(raw)
                /\ requests[1].source = source_lang
                /\ requests[1].target = target_lang

\* The service returned None in a Hindi-to-Spanish session: one request, no more.
C10_Witness ==
    /\ pstate = "returned"
    /\ Answered
    /\ Answer.kind = "none"
    /\ Len(requests) = 1
    /\ source_lang = "hi"
    /\ raw # Trimmed(raw)

\* C11 (as claimed): when the service has failed, by an exception or by
\* returning None or an empty string, process has printed an error
\* notification by the time it returns nothing.
C11_FailureIsNotified ==
    (pstate = "returned" /\ ServiceFailed)
        => /\ ret = <<>>
           /\ \E i \in 1..Len(ProcessOut) : ProcessOut[i].kind = "translation_error"

\* C12 (as claimed): no two speak threads are inside their load-play-wait
\* cycle at the same time.
C12_CyclesExclusive ==
    \A i, j \in 1..Len(tasks) :
        (tasks[i].pc = "busy" /\ tasks[j].pc = "busy") => i = j

\* C12 (amended): the music stream plays the file of at most one speak thread,
\* the one that loaded last, and that thread is still inside its cycle with
\* its file in place: no thread leaves its cycle while audio is playing.
C12_StreamHeldByWaitingTask ==
    /\ mixer \in 0..Len(tasks)
    /\ mixer # 0 => (tasks[mixer].pc = "busy" /\ tasks[mixer].file = "exists")
    /\ \A i \in 1..Len(tasks) :
          (tasks[i].pc = "done" /\ tasks[i].file = "deleted") => mixer # i

\* Two threads wait in their cycles while the second one's audio plays.
C12_Witness ==
    /\ Len(tasks) = 2
    /\ tasks[1].pc = "busy"
    /\ tasks[2].pc = "busy"
    /\ mixer = 2

\* A step of a speak thread or of the playback device.
AudioStep == (tasks' # tasks /\ Len(tasks') = Len(tasks)) \/ mixer' # mixer

\* C13: the history changes only in the step of the control thread that ends
\* a successful process call, a step in which no speak thread moves; and a
\* step of a speak thread changes neither the history nor the language pair.
C13_HistoryOwnedByControlThread ==
    [][ /\ history' # history
            => (pc = "append" /\ pc' = "loop" /\ tasks' = tasks /\ mixer' = mixer)
        /\ AudioStep
            => /\ history' = history
               /\ source_lang' = source_lang
               /\ target_lang' = target_lang ]_vars

\* The speak thread of the second turn is already playing while process has
\* still to append that turn's entry.
C13_Witness ==
    /\ pc = "append"
    /\ Len(history) = 1
    /\ tasks[2].pc = "busy"
    /\ tasks[1].pc = "done"

\* C14 (as claimed): a speak thread that has ended has left no temporary file
\* behind, and a file is deleted only by a thread that has ended, when the
\* stream no longer plays it.
C14_FileDiscarded ==
    \A i \in 1..Len(tasks) :
        /\ tasks[i].pc = "done" => tasks[i].file # "exists"
        /\ tasks[i].file = "deleted" => (tasks[i].pc = "done" /\ mixer # i)

\* Two characters that are the same letter in either case.
SameLetter(c, d) ==
    \/ c = d
    \/ \E i \in 1..Len(UpperCase) : {c, d} = {UpperCase[i], LowerCase[i]}

Spells(t, word) ==
    /\ Len(t) = Len(word)
    /\ \A i \in 1..Len(t) : SameLetter(t[i], word[i])

\* The typed line, trimmed, is one of history, quit, exit, q in any case.
IsCommand(t) ==
    \/ Spells(t, <<"h", "i", "s", "t", "o", "r", "y">>)
    \/ Spells(t, <<"q", "u", "i", "t">>)
    \/ Spells(t, <<"e", "x", "i", "t">>)
    \/ Spells(t, <<"q">>)

\* C15: in text mode, after a command line was read no process call is made
\* for it: no request, no step inside process, and the step that read it left
\* history and speak threads alone.  After any other non-empty line process
\* has been called, once, on that line trimmed.
C15_CommandsBypassProcess ==
    /\ [](mode = "text" /\ Trimmed(line) # <<>>
            => IF IsCommand(Trimmed(line))
               THEN /\ pstate = "none"
                    /\ requests = <<>>
                    /\ ProcessOut = <<>>
                    /\ pc \in {"loop", "summary", "exited", "crashed"}
               ELSE /\ pstate # "none"
                    /\ raw = Trimmed(line)
                    /\ Len(requests) <= 1)
    /\ [][ (mode = "text" /\ turns' # turns /\ IsCommand(Trimmed(line')))
              => (history' = history /\ tasks' = tasks) ]_vars

\* The history command, typed with a capital and a trailing blank after a
\* recorded turn, printed the table and called nothing.
C15_Witness ==
    /\ mode = "text"
    /\ Spells(Trimmed(line), <<"h", "i", "s", "t", "o", "r", "y">>)
    /\ line # Trimmed(line)
    /\ Len(history) = 1
    /\ pstate = "none"
    /\ Len(out) = 1
    /\ out[1].kind = "history_row"

\* The kinds of the notifications in a console output.
Kinds(o) == {o[i].kind : i \in 1..Len(o)}
RecognitionFailures == {"no_speech", "not_understood", "speech_api_error"}

\* The step prints a recognition failure notice as its last output.
NotifiesFailure ==
    /\ out' # out
    /\ out' # <<>>
    /\ out'[Len(out')].kind \in RecognitionFailures

\* C16: in voice mode a process call is under way or done only in an
\* iteration whose recognition returned a transcript (none of the three
\* failure notices was printed).  A step that prints a failure notice makes no
\* call, changes no history and puts the loop back at its start; a step out of
\* recognition is a failure notice, a call of process, or an interrupt; and a
\* step that ends the loop prints no failure notice: it is an interrupt.
C16_VoiceCallsOnTranscriptOnly ==
    /\ [](mode = "voice" /\ pstate # "none"
            => /\ "recognising" \in Kinds(out)
               /\ Kinds(out) \cap RecognitionFailures = {})
    /\ [][ mode = "voice" =>
            /\ NotifiesFailure
                 => (pc' = "loop" /\ pstate' = "none" /\ history' = history
                     /\ tasks' = tasks /\ requests' = <<>>)
            /\ (pc = "recognise" /\ pc' # "recognise")
                 => \/ /\ NotifiesFailure
                       /\ pstate' = "none"
                    \/ /\ pstate' \in {"active", "returned"}
                       /\ Kinds(out') \cap RecognitionFailures = {}
                    \/ /\ pc' = "summary"
                       /\ out' = out
            /\ (pc # "summary" /\ pc' = "summary")
                 => (out' = out /\ history' = history) ]_vars

\* The recognition service failed in the second iteration, after a recorded
\* turn: the loop is back at its start and nothing was processed.
C16_Witness ==
    /\ mode = "voice"
    /\ pc = "loop"
    /\ turns = 2
    /\ "speech_api_error" \in Kinds(out)
    /\ pstate = "none"
    /\ Len(history) = 1

\* C17 (as claimed): once a front-end loop has ended, in whatever way, and the
\* program is over, the summary has been printed with the number of entries
\* of the history as its turn count.
C17_EveryEndPrintsSummary ==
    pc \in {"exited", "crashed"}
        => \E i \in 1..Len(out) : out[i].kind = "summary" /\ out[i].n = Len(history)

\* The kinds of the notifications of a console output, in order.
KindSeq(o) == [i \in 1..Len(o) |-> o[i].kind]

\* C18 (as claimed): process has emitted the original or the translated text
\* only if the translation has succeeded.
C18_EmitsOnlyAfterSuccess ==
    (pstate # "none" /\ {"original", "translated"} \cap Kinds(ProcessOut) # {})
        => ServiceSucceeded

\* C18 (amended): process emits the original before it calls the service; the
\* translated text only after the service succeeded, then it starts the speak
\* thread, then it appends the entry; a turn whose translation fails has
\* emitted the original and no translated text.
C18_EmitOrder ==
    /\ pc = "translate"
        => /\ KindSeq(ProcessOut) = <<"original">>
           /\ ProcessOut[1].a = Trimmed(raw)
           /\ ~Answered
           /\ Len(tasks) = Len(history)
           /\ history = before
    /\ pc = "spawn"
        => /\ ServiceSucceeded
           /\ KindSeq(ProcessOut) = <<"original", "translated", "speaking">>
           /\ ProcessOut[2].a = Answer.value
           /\ Len(tasks) = Len(history)
           /\ history = before
    /\ pc = "append"
        => /\ ServiceSucceeded
           /\ KindSeq(ProcessOut) = <<"original", "translated", "speaking">>
           /\ Len(tasks) = Len(history) + 1
           /\ history = before
    /\ (pstate = "returned" /\ Len(ret) = 1)
        => /\ KindSeq(ProcessOut) = <<"original", "translated", "speaking">>
           /\ Len(tasks) = Len(history)
           /\ Len(history) = Len(before) + 1
    /\ (pstate = "returned" /\ ServiceFailed)
        => /\ ProcessOut # <<>>
           /\ ProcessOut[1].kind = "original"
           /\ "translated" \notin Kinds(ProcessOut)

\* The service returned an empty string: the original was emitted, alone.
C18_Witness ==
    /\ pstate = "returned"
    /\ ServiceFailed
    /\ Answer.kind = "ok"
    /\ KindSeq(ProcessOut) = <<"original">>

\* The step is a process call returning an entry.
ReturnsEntry == pstate # "returned" /\ pstate' = "returned" /\ Len(ret') = 1

\* C19: while a call that returned an entry is the latest, that entry is the
\* last of the history, which is the history of the call's start plus it;
\* while a call that returned nothing is the latest, the history is that of
\* the call's start; and a step makes the history one entry longer if it is a
\* process call returning an entry, and leaves its length alone otherwise, so
\* that the length counts those calls.
C19_HistoryCountsReturnedEntries ==
    /\ [](pstate = "returned"
            => IF Len(ret) = 1
               THEN /\ history # <<>>
                    /\ history[Len(history)] = ret[1]
                    /\ Len(history) = Len(before) + 1
                    /\ IsPrefix(before, history)
               ELSE /\ ret = <<>>
                    /\ history = before)
    /\ [][ Len(history') = Len(history) + (IF ReturnsEntry THEN 1 ELSE 0) ]_vars

\* The second call returned its entry, which now ends a history of two
\* different entries.
C19_Witness ==
    /\ pstate = "returned"
    /\ Len(ret) = 1
    /\ Len(history) = 2
    /\ history[2] = ret[1]
    /\ history[1] # history[2]

====
